---- MODULE Spec2Model ----
(***************************************************************************)
(* use-pyodide: a foreground Coordinator (initializePyodide.ts), a Bridge  *)
(* Client and a worker-side Endpoint (pyodide-worker.ts) joined by Comlink *)
(* message channels.  The foreground and the worker are two event loops;   *)
(* every action below is one run-to-completion step of one of them.        *)
(***************************************************************************)
EXTENDS Integers, Sequences, FiniteSets, TLC

\* Number of foreground calls explored (every call gets the next id).
MaxOps == 4

OpIds == 1..MaxOps

\* Foreground callback functions, by identity: 1 and 2 are handed to the
\* initialisation as stdout/stderr, 3 and 4 are handed to setOutput.
SinkIds == {1, 2, 3, 4}
OutputCallbacks == {3, 4}

\* options objects of initializePyodide / initializeWorker (0 = undefined).
ConfigA == [packages |-> <<"numpy">>, stdout |-> 1, stderr |-> 0]
ConfigB == [packages |-> <<>>, stdout |-> 0, stderr |-> 2]
NoConfig == [packages |-> <<>>, stdout |-> 0, stderr |-> 0]
Configs == {ConfigA, ConfigB}
\* getPyodide's options type has no packages member.
SinkConfigs == {ConfigB}

\* An error message is a sequence of pieces of text; NL is the newline
\* character and Marker the text File "<exec>".
NL == "\n"
Marker == "File \"<exec>\""
Traceback1 == <<"Traceback (most recent call last):", NL,
                "  ", Marker, ", line 1, in <module>", NL,
                "ZeroDivisionError: division by zero", NL>>

\* Python code strings, by what the engine does with them: the streams it
\* writes a chunk to, in order, how runPythonAsync ends (with a value, or
\* throwing a PythonError, another Error, or a value that is no Error), and
\* the message of what it throws.
CodePass == [writes |-> <<>>, end |-> "value", result |-> "none", message |-> <<>>]
CodePrint2 == [writes |-> <<"stdout", "stdout">>, end |-> "value", result |-> "json",
               message |-> <<>>]
CodeRaise == [writes |-> <<"stderr">>, end |-> "PythonError", result |-> "none",
              message |-> Traceback1]
Codes == {CodePrint2, CodeRaise}
JsonCodes == {CodePass}

NotReady == "pyodide isn't loaded yet"
AlreadyInitialized == "pyodide was already initialized"
InitFailure == "initialization failed"

VARIABLES
  pyodide,       \* initializePyodide.ts:5   0 = undefined, else the op whose promise is stored
  _worker,       \* pyodide-worker.ts:172    0 = null, else the worker context
  _runner,       \* pyodide-worker.ts:173    0 = null, else the wrapped context
  ops,           \* the foreground calls made so far and the state of their promises
  nctx,          \* worker contexts created so far
  terminated,    \* terminate() was called and no worker was created since
  fgOutput,      \* the proxy made by the latest setOutput call of the client
  ctx,           \* the live worker context, 0 = none
  inbox,         \* requests posted to the live worker, in order
  outbox,        \* replies posted by the live worker to its parent, in order
  chan,          \* per Comlink.proxy: invocations posted to it, in order
  sinkLog,       \* per foreground callback: the texts it was invoked with
  _pyodideReady, \* pyodide-worker.ts:21
  selfPyodide,   \* self.pyodide, 0 = undefined, else the engine instance
  _output,       \* pyodide-worker.ts:23     the proxy held, or NoProxy
  epOutput,      \* the proxy of the latest setOutput request the Endpoint handled
  load,          \* the activation of _loadPyodide
  loads,         \* loadPyodide calls started in the live context
  waiting,       \* runPython activations suspended at "await _pyodideReady"
  evals,         \* runPython activations inside runPythonAsync
  evalLog        \* engine instances used by the evaluations started

vars == <<pyodide, _worker, _runner, ops, nctx, terminated, fgOutput, ctx, inbox,
          outbox, chan, sinkLog, _pyodideReady, selfPyodide, _output,
          epOutput, load, loads, waiting, evals, evalLog>>

clientVars == <<_worker, _runner, nctx, terminated, fgOutput>>
workerVars == <<_pyodideReady, selfPyodide, _output, epOutput, load, loads, waiting, evals, evalLog>>

----------------------------------------------------------------------------
\* Comlink proxies.  A proxy is made by one foreground call for one
\* callback; it is named by that call and the slot it fills.
Slots == {"stdout", "stderr", "output"}
ProxyIds == OpIds \X Slots
NoProxy == <<0, "none">>

Proxy(id, slot, callback) == IF callback = 0 THEN NoProxy ELSE <<id, slot>>

ProxySink(p) ==
  IF p[2] = "stdout" THEN ops[p[1]].cfg.stdout
  ELSE IF p[2] = "stderr" THEN ops[p[1]].cfg.stderr
  ELSE ops[p[1]].cb

\* chan after the worker invoked the proxies ps (in this order) with text.
RECURSIVE Post(_, _, _)
Post(c, ps, text) ==
  IF ps = <<>> THEN c
  ELSE Post(IF Head(ps) = NoProxy THEN c
            ELSE [c EXCEPT ![Head(ps)] = Append(@, text)], Tail(ps), text)

NoLoad == [phase |-> "none", id |-> 0, packages |-> <<>>, stdout |-> NoProxy, stderr |-> NoProxy]

InitKinds == {"initializePyodide", "getPyodide", "initializeWorker"}

\* The initializeWorker call that created the Client's worker has resolved.
ClientReady ==
  /\ _worker # 0
  /\ \E k \in DOMAIN ops : /\ ops[k].kind \in InitKinds
                            /\ ops[k].ctx = _worker
                            /\ ops[k].iw = "resolved"

NewOp(kind) ==
  [kind |-> kind, status |-> IF kind \in InitKinds THEN "promise" ELSE "pending", val |-> "", facade |-> 0, err |-> "", cfg |-> NoConfig,
   promise |-> 0, ctx |-> 0, code |-> CodePass, globals |-> FALSE, cb |-> 0,
   iw |-> "none", message |-> <<>>,
   \* what was the case when the call was made, for the properties below
   term |-> terminated, live |-> nctx > 0 /\ ~terminated, ready |-> ClientReady,
   seen |-> IF pyodide = 0 THEN "undefined" ELSE ops[pyodide].iw,
   engineReady |-> FALSE]

\* The promise a call returned: initializePyodide and getPyodide return the
\* promise stored in pyodide (initializePyodide.ts:28, 63), whose state is
\* that of the initializeWorker call behind it.
StatusOf(i) == IF ops[i].kind \in InitKinds THEN ops[ops[i].promise].iw ELSE ops[i].status
ValueOf(i) == IF ops[i].kind \in InitKinds THEN ops[ops[i].promise].facade ELSE ops[i].val
ErrorOf(i) == IF ops[i].kind \in InitKinds THEN ops[ops[i].promise].err ELSE ops[i].err

\* Some caller holds a facade: only a resolved initialisation hands one out.
FacadeHeld == \E i \in DOMAIN ops : ops[i].kind \in InitKinds /\ StatusOf(i) = "resolved"

\* A caller awaits a run before it starts the next one (concurrent
\* evaluations on one engine are left undefined by the design).
RunInFlight ==
  \E i \in DOMAIN ops : /\ ops[i].kind \in {"runPython", "runPythonJson", "remote.runPython"}
                         /\ ops[i].status = "pending"
                         /\ ops[i].ctx = ctx

CanCall == Len(ops) < MaxOps

Init ==
  /\ pyodide = 0
  /\ _worker = 0
  /\ _runner = 0
  /\ ops = <<>>
  /\ nctx = 0
  /\ terminated = FALSE
  /\ fgOutput = NoProxy
  /\ ctx = 0
  /\ inbox = <<>>
  /\ outbox = <<>>
  /\ chan = [p \in ProxyIds |-> <<>>]
  /\ sinkLog = [s \in SinkIds |-> <<>>]
  /\ _pyodideReady = "null"
  /\ selfPyodide = 0
  /\ _output = NoProxy
  /\ epOutput = NoProxy
  /\ load = NoLoad
  /\ loads = 0
  /\ waiting = <<>>
  /\ evals = {}
  /\ evalLog = {}

----------------------------------------------------------------------------
\* Bridge Client: initializeWorker (pyodide-worker.ts:189-216).
\* o is the record of the calling operation; its id is the next op id.

\* A new Worker: a fresh context with the module state of pyodide-worker.ts.
NewWorker(msg) ==
  /\ nctx' = nctx + 1
  /\ ctx' = nctx + 1
  /\ _worker' = nctx + 1
  /\ _runner' = nctx + 1
  /\ terminated' = FALSE
  /\ fgOutput' = NoProxy
  /\ inbox' = <<msg>>
  /\ outbox' = <<>>
  /\ _pyodideReady' = "null"
  /\ selfPyodide' = 0
  /\ _output' = NoProxy
  /\ epOutput' = NoProxy
  /\ load' = NoLoad
  /\ loads' = 0
  /\ waiting' = <<>>
  /\ evals' = {}
  /\ evalLog' = {}

\* initializeWorker without the test of line 197
initializeWorkerNoGuard(o) ==
  LET id == Len(ops) + 1 IN
  /\ NewWorker([type |-> "initialize", id |-> id,
                packages |-> o.cfg.packages,
                stdout |-> Proxy(id, "stdout", o.cfg.stdout),
                stderr |-> Proxy(id, "stderr", o.cfg.stderr)])
  /\ ops' = Append(ops, [o EXCEPT !.iw = "pending", !.ctx = nctx + 1])

\* initializeWorker proxying the options into the wrong members (lines 203-204)
initializeWorkerSwapped(o) ==
  LET id == Len(ops) + 1 IN
  IF _worker = 0
  THEN /\ NewWorker([type |-> "initialize", id |-> id,
                     packages |-> o.cfg.packages,
                     stdout |-> Proxy(id, "stderr", o.cfg.stderr),
                     stderr |-> Proxy(id, "stdout", o.cfg.stdout)])
       /\ ops' = Append(ops, [o EXCEPT !.iw = "pending", !.ctx = nctx + 1])
  ELSE /\ ops' = Append(ops, [o EXCEPT !.iw = "resolved", !.facade = id,
                                !.engineReady = (_pyodideReady = "resolved")])
       /\ UNCHANGED <<clientVars, ctx, inbox, outbox, workerVars>>

initializeWorker(o) ==
  LET id == Len(ops) + 1 IN
  IF _worker = 0
  THEN /\ NewWorker([type |-> "initialize", id |-> id,
                     packages |-> o.cfg.packages,
                     stdout |-> Proxy(id, "stdout", o.cfg.stdout),
                     stderr |-> Proxy(id, "stderr", o.cfg.stderr)])
       /\ ops' = Append(ops, [o EXCEPT !.iw = "pending", !.ctx = nctx + 1])
  ELSE /\ ops' = Append(ops, [o EXCEPT !.iw = "resolved", !.facade = id,
                                !.engineReady = (_pyodideReady = "resolved")])
       /\ UNCHANGED <<clientVars, ctx, inbox, outbox, workerVars>>

InitializeWorker(cfg) ==
  /\ CanCall
  /\ initializeWorker([NewOp("initializeWorker") EXCEPT !.cfg = cfg,
                                                        !.promise = Len(ops) + 1])
  /\ UNCHANGED <<pyodide, chan, sinkLog>>

----------------------------------------------------------------------------
\* Initialization Coordinator (initializePyodide.ts).

\* initializePyodide without the test of line 23
initializePyodideNoGuard(kind, cfg) ==
  LET id == Len(ops) + 1 IN
  /\ initializeWorker([NewOp(kind) EXCEPT !.cfg = cfg, !.promise = id])
  /\ pyodide' = id

\* initializePyodide starting over once the stored promise has rejected
initializePyodideRetry(kind, cfg) ==
  LET id == Len(ops) + 1 IN
  IF pyodide = 0 \/ ops[pyodide].iw = "rejected"
  THEN /\ initializeWorker([NewOp(kind) EXCEPT !.cfg = cfg, !.promise = id])
       /\ pyodide' = id
  ELSE /\ ops' = Append(ops, [NewOp(kind) EXCEPT !.cfg = cfg, !.promise = pyodide])
       /\ UNCHANGED <<pyodide, clientVars, ctx, inbox, outbox, workerVars>>

\* initializePyodide starting over once the bridge's worker is gone
initializePyodideAfterTerminate(kind, cfg) ==
  LET id == Len(ops) + 1 IN
  IF pyodide = 0 \/ _worker = 0
  THEN /\ initializeWorker([NewOp(kind) EXCEPT !.cfg = cfg, !.promise = id])
       /\ pyodide' = id
  ELSE /\ ops' = Append(ops, [NewOp(kind) EXCEPT !.cfg = cfg, !.promise = pyodide])
       /\ UNCHANGED <<pyodide, clientVars, ctx, inbox, outbox, workerVars>>

\* initializePyodide.ts:13-29 with _initializePyodide (34-47) inlined: the
\* promise stored in pyodide is the one of this call's initializeWorker.
initializePyodide(kind, cfg) ==
  LET id == Len(ops) + 1 IN
  IF pyodide = 0
  THEN /\ initializeWorker([NewOp(kind) EXCEPT !.cfg = cfg, !.promise = id])
       /\ pyodide' = id
  ELSE /\ ops' = Append(ops, [NewOp(kind) EXCEPT !.cfg = cfg, !.promise = pyodide])
       /\ UNCHANGED <<pyodide, clientVars, ctx, inbox, outbox, workerVars>>

InitializePyodide(cfg) ==
  /\ CanCall
  /\ initializePyodide("initializePyodide", cfg)
  /\ UNCHANGED <<chan, sinkLog>>

\* initializePyodide.ts:55-68
getPyodide(cfg) ==
  IF pyodide # 0
  THEN /\ ops' = Append(ops, [NewOp("getPyodide") EXCEPT !.cfg = cfg, !.promise = pyodide])
       /\ UNCHANGED <<pyodide, clientVars, ctx, inbox, outbox, workerVars>>
  ELSE initializePyodide("getPyodide", cfg)

GetPyodide(cfg) ==
  /\ CanCall
  /\ getPyodide(cfg)
  /\ UNCHANGED <<chan, sinkLog>>

----------------------------------------------------------------------------
\* Bridge Client: the facade's operations (pyodide-worker.ts:221-263).

\* Comlink posts a request to the context _runner wraps; a context that was
\* terminated receives nothing.
Send(msg) == IF _runner = ctx /\ ctx # 0 THEN Append(inbox, msg) ELSE inbox

\* pyodide-worker.ts:221-230; kind tells runPythonJson's inner call apart.
runPython(kind, code, globals) ==
  LET id == Len(ops) + 1
      o == [NewOp(kind) EXCEPT !.code = code, !.globals = globals]
  IN IF _worker = 0 \/ _runner = 0
     THEN /\ ops' = Append(ops, [o EXCEPT !.status = "rejected", !.err = NotReady])
          /\ UNCHANGED inbox
     ELSE /\ ops' = Append(ops, [o EXCEPT !.ctx = _runner])
          /\ inbox' = Send([type |-> "runPython", id |-> id, code |-> code,
                            globals |-> globals])

RunPython(code, globals) ==
  /\ CanCall /\ FacadeHeld /\ ~RunInFlight
  /\ runPython("runPython", code, globals)
  /\ UNCHANGED <<pyodide, clientVars, ctx, outbox, chan, sinkLog, workerVars>>

\* pyodide-worker.ts:235-245: the call of runPython; the rest runs when the
\* reply arrives (runPythonJsonResult).
RunPythonJson(code, globals) ==
  /\ CanCall /\ FacadeHeld /\ ~RunInFlight
  /\ runPython("runPythonJson", code, globals)
  /\ UNCHANGED <<pyodide, clientVars, ctx, outbox, chan, sinkLog, workerVars>>

\* pyodide-worker.ts:248-253.  The promise of the remote call is dropped.
setOutput(callback) ==
  LET id == Len(ops) + 1
      o == [NewOp("setOutput") EXCEPT !.cb = callback]
  IN IF _runner = 0
     THEN /\ ops' = Append(ops, [o EXCEPT !.status = "thrown", !.err = NotReady])
          /\ UNCHANGED <<inbox, fgOutput>>
     ELSE /\ ops' = Append(ops, [o EXCEPT !.status = "returned", !.ctx = _runner])
          /\ inbox' = Send([type |-> "setOutput", id |-> id,
                            callback |-> Proxy(id, "output", callback)])
          /\ fgOutput' = Proxy(id, "output", callback)

SetOutput(callback) ==
  /\ CanCall /\ FacadeHeld
  /\ setOutput(callback)
  /\ UNCHANGED <<pyodide, _worker, _runner, nctx, terminated, ctx, outbox, chan,
                 sinkLog, workerVars>>

\* terminate without line 262
terminateKeepRunner ==
  /\ IF _worker # 0 /\ _worker = ctx
     THEN /\ ctx' = 0
          /\ inbox' = <<>>
          /\ outbox' = <<>>
          /\ waiting' = <<>>
          /\ evals' = {}
     ELSE UNCHANGED <<ctx, inbox, outbox, waiting, evals>>
  /\ _worker' = 0
  /\ _runner' = _runner

\* terminate without line 259
terminateNoStop ==
  /\ UNCHANGED <<ctx, inbox, outbox, waiting, evals>>
  /\ _worker' = 0
  /\ _runner' = 0

\* pyodide-worker.ts:258-263.  Worker.terminate() stops the context and
\* empties the queue of messages it had posted to its parent.
terminate ==
  /\ IF _worker # 0 /\ _worker = ctx
     THEN /\ ctx' = 0
          /\ inbox' = <<>>
          /\ outbox' = <<>>
          /\ waiting' = <<>>
          /\ evals' = {}
     ELSE UNCHANGED <<ctx, inbox, outbox, waiting, evals>>
  /\ _worker' = 0
  /\ _runner' = 0

Terminate ==
  /\ CanCall /\ FacadeHeld
  /\ terminate
  /\ terminated' = TRUE
  /\ ops' = Append(ops, [NewOp("terminate") EXCEPT !.status = "returned", !.ctx = _worker])
  /\ UNCHANGED <<pyodide, nctx, fgOutput, chan, sinkLog, _pyodideReady, selfPyodide,
                 _output, epOutput, load, loads, evalLog>>

----------------------------------------------------------------------------
\* Remote Execution Endpoint (pyodide-worker.ts:21-162).  Comlink's expose
\* handles one request per task and posts the reply when the returned
\* promise settles.

Reply(id, ok, val, err) == [id |-> id, ok |-> ok, val |-> val, err |-> err, message |-> <<>>]

\* The reply to a request whose handler threw: Comlink carries the name and
\* the message of what was thrown.
ReplyError(id, name, message) ==
  [id |-> id, ok |-> FALSE, val |-> "none", err |-> name, message |-> message]

HeadIs(type) == ctx # 0 /\ inbox # <<>> /\ Head(inbox).type = type

\* initialize without the test of line 43
initializeNoGuard(m) ==
  /\ _pyodideReady' = "pending"
  /\ load' = [phase |-> "loadPyodide", id |-> m.id, packages |-> m.packages,
              stdout |-> m.stdout, stderr |-> m.stderr]
  /\ loads' = loads + 1
  /\ UNCHANGED outbox

\* initialize refusing a second request after taking over its callbacks
initializeTakeSinks(m) ==
  IF _pyodideReady # "null"
  THEN /\ outbox' = Append(outbox, Reply(m.id, FALSE, "none", AlreadyInitialized))
       /\ load' = [load EXCEPT !.stdout = m.stdout, !.stderr = m.stderr]
       /\ UNCHANGED <<_pyodideReady, loads>>
  ELSE /\ _pyodideReady' = "pending"
       /\ load' = [phase |-> "loadPyodide", id |-> m.id, packages |-> m.packages,
                   stdout |-> m.stdout, stderr |-> m.stderr]
       /\ loads' = loads + 1
       /\ UNCHANGED outbox

\* pyodide-worker.ts:29-49 and the synchronous start of _loadPyodide (57-65).
initialize(m) ==
  IF _pyodideReady # "null"
  THEN /\ outbox' = Append(outbox, Reply(m.id, FALSE, "none", AlreadyInitialized))
       /\ UNCHANGED <<_pyodideReady, load, loads>>
  ELSE /\ _pyodideReady' = "pending"
       /\ load' = [phase |-> "loadPyodide", id |-> m.id, packages |-> m.packages,
                   stdout |-> m.stdout, stderr |-> m.stderr]
       /\ loads' = loads + 1
       /\ UNCHANGED outbox

WorkerInitialize ==
  /\ HeadIs("initialize")
  /\ initialize(Head(inbox))
  /\ inbox' = Tail(inbox)
  /\ UNCHANGED <<pyodide, clientVars, ops, ctx, chan, sinkLog, selfPyodide, _output,
                 epOutput, waiting, evals, evalLog>>

\* The promise _pyodideReady settles: Comlink replies to initialize, then the
\* runPython activations awaiting it resume in the order they suspended.
RECURSIVE Rejections(_)
Rejections(ws) ==
  IF ws = <<>> THEN <<>>
  ELSE <<Reply(Head(ws).id, FALSE, "none", InitFailure)>> \o Rejections(Tail(ws))

Range(f) == {f[x] : x \in DOMAIN f}

Activation(w) == [id |-> w.id, pc |-> 0]

SettleReady(ok, engine) ==
  /\ _pyodideReady' = IF ok THEN "resolved" ELSE "rejected"
  /\ load' = [load EXCEPT !.phase = IF ok THEN "done" ELSE "failed"]
  /\ outbox' = Append(outbox, Reply(load.id, ok, "none", IF ok THEN "" ELSE InitFailure))
                 \o (IF ok THEN <<>> ELSE Rejections(waiting))
  /\ evals' = IF ok THEN evals \cup {Activation(w) : w \in Range(waiting)} ELSE evals
  /\ evalLog' = IF ok THEN evalLog \cup {<<w.id, engine>> : w \in Range(waiting)}
                ELSE evalLog
  /\ waiting' = <<>>

\* pyodide-worker.ts:65-93: loadPyodide settles; micropip runs when packages
\* were given.
LoadPyodideDone(ok) ==
  /\ ctx # 0
  /\ load.phase = "loadPyodide"
  /\ IF ok /\ Len(load.packages) > 0
     THEN /\ selfPyodide' = loads
          /\ load' = [load EXCEPT !.phase = "install"]
          /\ UNCHANGED <<_pyodideReady, outbox, evals, evalLog, waiting>>
     ELSE /\ selfPyodide' = IF ok THEN loads ELSE selfPyodide
          /\ SettleReady(ok, loads)
  /\ UNCHANGED <<pyodide, clientVars, ops, ctx, inbox, chan, sinkLog, _output, epOutput,
                 loads>>

\* pyodide-worker.ts:90-92
InstallDone(ok) ==
  /\ ctx # 0
  /\ load.phase = "install"
  /\ SettleReady(ok, selfPyodide)
  /\ UNCHANGED <<pyodide, clientVars, ops, ctx, inbox, chan, sinkLog, selfPyodide,
                 _output, epOutput, loads>>

\* String.prototype.includes, split("\n") and join("\n") of lines 122-124.
Includes(line, piece) == \E k \in DOMAIN line : line[k] = piece

RECURSIVE Split(_)
Split(message) ==
  IF \A k \in DOMAIN message : message[k] # NL THEN <<message>>
  ELSE LET n == CHOOSE k \in DOMAIN message :
                  message[k] = NL /\ \A j \in 1..(k - 1) : message[j] # NL
       IN <<SubSeq(message, 1, n - 1)>> \o Split(SubSeq(message, n + 1, Len(message)))

RECURSIVE Join(_)
Join(lines) ==
  IF lines = <<>> THEN <<>>
  ELSE IF Len(lines) = 1 THEN lines[1]
  ELSE lines[1] \o <<NL>> \o Join(Tail(lines))

\* the filter dropping the first marker line only
RECURSIVE cleanedLinesFirstOnly(_)
cleanedLinesFirstOnly(lines) ==
  IF lines = <<>> THEN <<>>
  ELSE IF Includes(Head(lines), Marker) THEN Tail(lines)
  ELSE <<Head(lines)>> \o cleanedLinesFirstOnly(Tail(lines))

\* pyodide-worker.ts:123
cleanedLines(lines) == SelectSeq(lines, LAMBDA line : ~Includes(line, Marker))

\* What runPythonAsync threw: Error instances are the PythonError and the
\* other Error classes; anything else thrown is no Error.
Thrown(name, message) == [name |-> name, message |-> message, isError |-> name # "thrown"]

\* the catch block rethrowing without the call of line 126
catchNoForward(id, err) ==
  IF err.isError
  THEN LET errorMessage == Join(cleanedLines(Split(err.message)))
       IN /\ outbox' = Append(outbox, ReplyError(id, "Error", errorMessage))
          /\ UNCHANGED chan
  ELSE /\ outbox' = Append(outbox, ReplyError(id, err.name, err.message))
       /\ UNCHANGED chan

\* pyodide-worker.ts:120-131, the catch block of runPython
catch(id, err) ==
  IF err.isError
  THEN LET errorMessage == Join(cleanedLines(Split(err.message)))
       IN /\ chan' = Post(chan, <<_output>>, <<id, 0, epOutput, errorMessage>>)
          /\ outbox' = Append(outbox, ReplyError(id, "Error", errorMessage))
  ELSE /\ outbox' = Append(outbox, ReplyError(id, err.name, err.message))
       /\ UNCHANGED chan

\* the message of the TypeError thrown by a member access on undefined
UndefinedAccess == <<"Cannot read properties of undefined">>

\* runPython without the await of line 113
workerRunPythonNoAwait(m) ==
  IF selfPyodide = 0 /\ m.globals
  THEN /\ outbox' = Append(outbox, ReplyError(m.id, "TypeError", UndefinedAccess))
       /\ UNCHANGED <<waiting, chan, evals, evalLog>>
  ELSE IF selfPyodide = 0
  THEN /\ catch(m.id, Thrown("TypeError", UndefinedAccess))
       /\ UNCHANGED <<waiting, evals, evalLog>>
  ELSE /\ evals' = evals \cup {Activation(m)}
       /\ evalLog' = evalLog \cup {<<m.id, selfPyodide>>}
       /\ UNCHANGED <<waiting, outbox, chan>>

\* pyodide-worker.ts:109-132 up to the call of runPythonAsync, for a request
\* that finds _pyodideReady null or settled.
workerRunPython(m) ==
  IF _pyodideReady = "pending"
  THEN /\ waiting' = Append(waiting, m)
       /\ UNCHANGED <<outbox, chan, evals, evalLog>>
  ELSE IF _pyodideReady = "rejected"
  THEN /\ outbox' = Append(outbox, Reply(m.id, FALSE, "none", InitFailure))
       /\ UNCHANGED <<waiting, chan, evals, evalLog>>
  ELSE IF selfPyodide = 0 /\ m.globals
  THEN \* self.pyodide.toPy of undefined, outside the try block
       /\ outbox' = Append(outbox, ReplyError(m.id, "TypeError", UndefinedAccess))
       /\ UNCHANGED <<waiting, chan, evals, evalLog>>
  ELSE IF selfPyodide = 0
  THEN \* self.pyodide.runPythonAsync of undefined, inside the try block
       /\ catch(m.id, Thrown("TypeError", UndefinedAccess))
       /\ UNCHANGED <<waiting, evals, evalLog>>
  ELSE /\ evals' = evals \cup {Activation(m)}
       /\ evalLog' = evalLog \cup {<<m.id, selfPyodide>>}
       /\ UNCHANGED <<waiting, outbox, chan>>

WorkerRunPython ==
  /\ HeadIs("runPython")
  /\ workerRunPython(Head(inbox))
  /\ inbox' = Tail(inbox)
  /\ UNCHANGED <<pyodide, clientVars, ops, ctx, sinkLog, _pyodideReady, selfPyodide,
                 _output, epOutput, load, loads>>

\* setOutput keeping the old callback when given null
workerSetOutputKeep(callback) == _output' = IF callback = NoProxy THEN _output ELSE callback

\* pyodide-worker.ts:135-137
workerSetOutput(callback) == _output' = callback

WorkerSetOutput ==
  /\ HeadIs("setOutput")
  /\ workerSetOutput(Head(inbox).callback)
  /\ epOutput' = Head(inbox).callback
  /\ inbox' = Tail(inbox)
  /\ UNCHANGED <<pyodide, clientVars, ops, ctx, outbox, chan, sinkLog, _pyodideReady,
                 selfPyodide, load, loads, waiting, evals, evalLog>>

\* the stdout handler calling _output only when no options.stdout was given
stdoutHandlerElse(text) ==
  Post(chan, IF load.stdout # NoProxy THEN <<load.stdout>> ELSE <<_output>>, text)

\* pyodide-worker.ts:68-86: the handlers given to loadPyodide.  A text is
\* named by the run that wrote it, its position among the run's chunks (0 for
\* the error message of line 126, which comes fourth), and the proxy of the latest setOutput
\* request handled when it was written.
stdoutHandler(text) == Post(chan, <<load.stdout, _output>>, text)
stderrHandler(text) == Post(chan, <<load.stderr, _output>>, text)

\* The engine, inside runPythonAsync, writes the next chunk of the code.
EvalWrite(e) ==
  /\ ctx # 0
  /\ e \in evals
  /\ LET code == ops[e.id].code
         text == <<e.id, e.pc + 1, epOutput, <<>>>>
     IN /\ e.pc < Len(code.writes)
        /\ chan' = IF code.writes[e.pc + 1] = "stdout"
                   THEN stdoutHandler(text) ELSE stderrHandler(text)
        /\ evals' = (evals \ {e}) \cup {[e EXCEPT !.pc = e.pc + 1]}
  /\ UNCHANGED <<pyodide, clientVars, ops, ctx, inbox, outbox, sinkLog, _pyodideReady,
                 selfPyodide, _output, epOutput, load, loads, waiting, evalLog>>

\* pyodide-worker.ts:119-131: runPythonAsync settles.
runPythonEnd(id, code) ==
  IF code.end = "value"
  THEN /\ outbox' = Append(outbox, Reply(id, TRUE, code.result, ""))
       /\ UNCHANGED chan
  ELSE catch(id, Thrown(code.end, code.message))

EvalEnd(e) ==
  /\ ctx # 0
  /\ e \in evals
  /\ e.pc = Len(ops[e.id].code.writes)
  /\ runPythonEnd(e.id, ops[e.id].code)
  /\ evals' = evals \ {e}
  /\ UNCHANGED <<pyodide, clientVars, ops, ctx, inbox, sinkLog, _pyodideReady,
                 selfPyodide, _output, epOutput, load, loads, waiting, evalLog>>

----------------------------------------------------------------------------
\* Foreground: message events.

\* The values a runPython promise resolves with, by name: undefined (Python
\* None), the strings "", '{"a": 1}', "0" and "abc", the numbers 0 and 1, and
\* the boolean false.
JSValues == {"none", "empty", "json", "zeroText", "text", "zero", "one", "false"}

\* JavaScript's ToBoolean, as applied by "if (result)" (line 240)
ToBoolean(v) == v \notin {"none", "empty", "zero", "false"}

\* JavaScript's ToString, which JSON.parse applies to its argument
JSToString(v) ==
  CASE v = "none" -> "undefined"
    [] v = "empty" -> ""
    [] v = "json" -> "{\"a\": 1}"
    [] v = "zeroText" -> "0"
    [] v = "text" -> "abc"
    [] v = "zero" -> "0"
    [] v = "one" -> "1"
    [] v = "false" -> "false"

\* JSON.parse of a text: the value parsed, or the SyntaxError thrown
JSONParse(text) ==
  IF text \in {"{\"a\": 1}", "0", "1", "false"}
  THEN [ok |-> TRUE, val |-> "JSON " \o text]
  ELSE [ok |-> FALSE, val |-> "SyntaxError"]

\* pyodide-worker.ts:239-244, on the result of the inner runPython
runPythonJsonResult(o, r) ==
  IF ~r.ok THEN [o EXCEPT !.status = "rejected", !.err = r.err, !.message = r.message]
  ELSE IF ToBoolean(r.val)
  THEN LET json == JSONParse(JSToString(r.val))
       IN IF json.ok THEN [o EXCEPT !.status = "resolved", !.val = json.val]
          ELSE [o EXCEPT !.status = "rejected", !.err = json.val]
  ELSE [o EXCEPT !.status = "resolved", !.val = "null"]

\* The reply to a request settles the promise of the call that made it:
\* initializeWorker resumes at line 208 and returns a new facade object,
\* runPython at line 228.
Settled(o, r) ==
  IF o.kind \in InitKinds
  THEN [o EXCEPT !.iw = IF r.ok THEN "resolved" ELSE "rejected",
                 !.facade = IF r.ok THEN r.id ELSE @,
                 !.err = r.err,
                 !.engineReady = r.ok /\ _pyodideReady = "resolved"]
  ELSE IF o.kind = "runPythonJson" THEN runPythonJsonResult(o, r)
  ELSE [o EXCEPT !.status = IF r.ok THEN "resolved" ELSE "rejected",
                 !.val = r.val, !.err = r.err, !.message = r.message]

DeliverReply ==
  /\ outbox # <<>>
  /\ LET r == Head(outbox) IN ops' = [ops EXCEPT ![r.id] = Settled(@, r)]
  /\ outbox' = Tail(outbox)
  /\ UNCHANGED <<pyodide, clientVars, ctx, inbox, chan, sinkLog, workerVars>>

\* A proxied callback is invoked in the foreground with the next text
\* posted to its proxy.
DeliverSink(p) ==
  /\ chan[p] # <<>>
  /\ sinkLog' = [sinkLog EXCEPT ![ProxySink(p)] = Append(@, Head(chan[p]))]
  /\ chan' = [chan EXCEPT ![p] = Tail(@)]
  /\ UNCHANGED <<pyodide, clientVars, ops, ctx, inbox, outbox, workerVars>>

----------------------------------------------------------------------------
\* The facade's operations, as called by whoever holds a facade.
FacadeNext ==
  \/ \E code \in Codes : RunPython(code, FALSE)
  \/ \E code \in JsonCodes : RunPythonJson(code, FALSE)
  \/ \E cb \in OutputCallbacks \cup {0} : SetOutput(cb)
  \/ Terminate

\* The message events of the foreground and the tasks of the worker.
SystemNext ==
  \/ DeliverReply
  \/ \E p \in ProxyIds : DeliverSink(p)
  \/ WorkerInitialize
  \/ WorkerRunPython
  \/ WorkerSetOutput
  \/ \E ok \in BOOLEAN : LoadPyodideDone(ok)
  \/ \E ok \in BOOLEAN : InstallDone(ok)
  \/ \E e \in evals : EvalWrite(e)
  \/ \E e \in evals : EvalEnd(e)

\* Any holder of the exposed Endpoint (pyodide-worker.ts:139-162) may send
\* it initialize, runPython and setOutput requests in any order.
Remote(o, msg) ==
  /\ CanCall
  /\ ctx # 0
  /\ ops' = Append(ops, [o EXCEPT !.ctx = ctx])
  /\ inbox' = Append(inbox, msg)
  /\ UNCHANGED <<pyodide, clientVars, ctx, outbox, chan, sinkLog, workerVars>>

RemoteInitialize(cfg) ==
  LET id == Len(ops) + 1 IN
  Remote([NewOp("remote.initialize") EXCEPT !.cfg = cfg],
         [type |-> "initialize", id |-> id, packages |-> cfg.packages,
          stdout |-> Proxy(id, "stdout", cfg.stdout),
          stderr |-> Proxy(id, "stderr", cfg.stderr)])

RemoteRunPython(code, globals) ==
  LET id == Len(ops) + 1 IN
  ~RunInFlight /\
  Remote([NewOp("remote.runPython") EXCEPT !.code = code, !.globals = globals],
         [type |-> "runPython", id |-> id, code |-> code, globals |-> globals])

RemoteSetOutput(callback) ==
  LET id == Len(ops) + 1 IN
  Remote([NewOp("remote.setOutput") EXCEPT !.cb = callback, !.status = "returned"],
         [type |-> "setOutput", id |-> id, callback |-> Proxy(id, "output", callback)])

\* An application that drives the Bridge Client itself (initializeWorker).
Next ==
  \/ \E cfg \in Configs : InitializeWorker(cfg)
  \/ FacadeNext
  \/ SystemNext

Spec == Init /\ [][Next]_vars

\* An application that goes through the Coordinator (initializePyodide,
\* getPyodide, and usePyodide, which calls getPyodide).
CoordinatorNext ==
  \/ \E cfg \in Configs : InitializePyodide(cfg)
  \/ \E cfg \in SinkConfigs : GetPyodide(cfg)
  \/ FacadeNext
  \/ SystemNext

SpecCoordinator == Init /\ [][CoordinatorNext]_vars

\* One background context, started, and whatever requests reach it.
InitEndpoint ==
  /\ pyodide = 0
  /\ _worker = 0
  /\ _runner = 0
  /\ ops = <<>>
  /\ nctx = 1
  /\ terminated = FALSE
  /\ fgOutput = NoProxy
  /\ ctx = 1
  /\ inbox = <<>>
  /\ outbox = <<>>
  /\ chan = [p \in ProxyIds |-> <<>>]
  /\ sinkLog = [s \in SinkIds |-> <<>>]
  /\ _pyodideReady = "null"
  /\ selfPyodide = 0
  /\ _output = NoProxy
  /\ epOutput = NoProxy
  /\ load = NoLoad
  /\ loads = 0
  /\ waiting = <<>>
  /\ evals = {}
  /\ evalLog = {}

\* code and whether globals are passed
RemoteRuns == {<<CodePrint2, FALSE>>, <<CodeRaise, TRUE>>}

EndpointNext ==
  \/ \E cfg \in Configs : RemoteInitialize(cfg)
  \/ \E run \in RemoteRuns : RemoteRunPython(run[1], run[2])
  \/ \E cb \in {0, 3} : RemoteSetOutput(cb)
  \/ SystemNext

SpecEndpoint == InitEndpoint /\ [][EndpointNext]_vars

\* Code for runPythonJson, by the value its last expression evaluates to.
CodeOf(v) == [writes |-> <<>>, end |-> "value", result |-> v, message |-> <<>>]
JsonRuns == {CodeOf(v) : v \in JSValues} \cup {CodeRaise}

\* An application that reads results through runPythonJson.
JsonNext ==
  \/ \E cfg \in Configs : InitializeWorker(cfg)
  \/ \E code \in JsonRuns : RunPythonJson(code, FALSE)
  \/ SetOutput(3)
  \/ Terminate
  \/ SystemNext

SpecJson == Init /\ [][JsonNext]_vars

\* Code whose evaluation throws: a PythonError with a marker line (after a
\* write to stderr), with two marker lines, with none; a JavaScript error that is no PythonError; a
\* value that is no Error.
Traceback2 == <<"Traceback (most recent call last):", NL,
                "  ", Marker, ", line 2, in <module>", NL,
                "  ", Marker, ", line 1, in f", NL,
                "NameError: name 'x' is not defined">>
CodeThrows(name, message) == [writes |-> <<>>, end |-> name, result |-> "none", message |-> message]
ErrorRuns == {<<CodeRaise, FALSE>>,
              <<CodeThrows("PythonError", Traceback2), FALSE>>,
              <<CodeThrows("PythonError", <<"KeyboardInterrupt">>), FALSE>>,
              <<CodeThrows("TypeError", <<"x is null">>), FALSE>>,
              <<CodeThrows("thrown", <<"stop">>), TRUE>>}

\* One background context and requests whose evaluation throws.
ErrorsNext ==
  \/ RemoteInitialize(ConfigA)
  \/ \E run \in ErrorRuns : RemoteRunPython(run[1], run[2])
  \/ RemoteSetOutput(3)
  \/ SystemNext

SpecErrors == InitEndpoint /\ [][ErrorsNext]_vars

\* The same application, with both event loops running every task that is
\* ready: a posted message is eventually handled, and the engine's load,
\* installation and evaluations end.
SpecLive == Init /\ [][Next]_vars /\ WF_vars(SystemNext)

----------------------------------------------------------------------------
\* Properties.

CoordinatorCalls == {i \in DOMAIN ops : ops[i].kind \in {"initializePyodide", "getPyodide"}}
\* the executions of initializeWorker
Invocations == {i \in DOMAIN ops : ops[i].iw # "none"}
FacadeCalls == {i \in DOMAIN ops : ops[i].kind \in {"runPython", "runPythonJson", "setOutput"}}
InitArgs(m) == <<m.packages, m.stdout, m.stderr>>
ArgsOf(i) == <<ops[i].cfg.packages, Proxy(i, "stdout", ops[i].cfg.stdout),
               Proxy(i, "stderr", ops[i].cfg.stderr)>>

\* C1: however many initializePyodide / getPyodide calls are made, before or
\* after completion, initializeWorker is executed exactly once, one worker
\* is created, one engine load is started, and every call holds the same
\* promise: once one call has resolved, all have, to the same facade object.
C1_SingleInitialization ==
  /\ Cardinality(Invocations) = (IF CoordinatorCalls = {} THEN 0 ELSE 1)
  /\ nctx = Cardinality(Invocations)
  /\ loads <= 1
  /\ \A i, j \in CoordinatorCalls :
       StatusOf(i) = "resolved" => StatusOf(j) = "resolved" /\ ValueOf(j) = ValueOf(i)

\* Three calls, the second made while the first was pending and the third
\* after it resolved, all resolved to one facade.
C1_Witness ==
  \E i, j, k \in CoordinatorCalls :
    /\ ops[i].seen = "undefined" /\ ops[j].seen = "pending" /\ ops[k].seen = "resolved"
    /\ StatusOf(i) = "resolved" /\ StatusOf(j) = "resolved" /\ StatusOf(k) = "resolved"
    /\ ValueOf(i) = ValueOf(j) /\ ValueOf(j) = ValueOf(k)

\* C2: once the one initialization has failed, every initializePyodide /
\* getPyodide call, pending then or made later, is rejected with that
\* failure, and no second initializeWorker execution, worker or engine load
\* exists.
C2_FailureIsShared ==
  \A k \in Invocations :
    ops[k].iw = "rejected" =>
      /\ Invocations = {k}
      /\ nctx = 1
      /\ loads = 1
      /\ \A i \in CoordinatorCalls : StatusOf(i) = "rejected" /\ ErrorOf(i) = ops[k].err

C2_Witness ==
  \E i, j \in CoordinatorCalls :
    /\ ops[i].seen = "pending" /\ StatusOf(i) = "rejected" /\ ErrorOf(i) = InitFailure
    /\ ops[j].seen = "rejected" /\ StatusOf(j) = "rejected" /\ ErrorOf(j) = InitFailure

\* C3: the packages and sinks that reach the Endpoint's initialize are those
\* of the call that triggered the initialization; a later call with another
\* configuration holds the same promise (so it is not rejected on its own
\* and resolves to the same facade), executes no initializeWorker, has no
\* proxy made for its sinks, and its sinks receive nothing.
C3_ConfigOfTrigger ==
  pyodide # 0 =>
    /\ \A k \in 1..Len(inbox) :
         inbox[k].type = "initialize" => InitArgs(inbox[k]) = ArgsOf(pyodide)
    /\ load.phase # "none" => InitArgs(load) = ArgsOf(pyodide)
    /\ \A j \in CoordinatorCalls \ {pyodide} :
         /\ ops[j].promise = pyodide
         /\ ops[j].iw = "none"
         /\ \A slot \in Slots : chan[<<j, slot>>] = <<>>
    /\ \A s \in {1, 2} :
         s \notin {ops[pyodide].cfg.stdout, ops[pyodide].cfg.stderr} => sinkLog[s] = <<>>

\* Triggered with ConfigA, called again with ConfigB: the later call has
\* resolved, output has reached ConfigA's sink, none ConfigB's.
C3_Witness ==
  /\ pyodide # 0
  /\ ops[pyodide].cfg = ConfigA
  /\ \E j \in CoordinatorCalls : ops[j].cfg = ConfigB /\ StatusOf(j) = "resolved"
  /\ sinkLog[1] # <<>>
  /\ sinkLog[2] = <<>>

\* C4, as claimed: a runPython or setOutput call made before the
\* initializeWorker call of its client has resolved fails with the not-ready
\* error.
C4_NotReadyBeforeResolved ==
  \A i \in DOMAIN ops :
    ops[i].kind \in {"runPython", "setOutput"} /\ ~ops[i].ready =>
      ops[i].status \in {"rejected", "thrown"} /\ ops[i].err = NotReady

\* C5: a runPython, runPythonJson or setOutput call made after terminate()
\* and before a new worker is created fails with the not-ready error and
\* posts nothing; in that state the client holds no worker and no runner and
\* no worker runs, so another terminate() changes nothing.
C5_AfterTerminate ==
  /\ \A i \in FacadeCalls :
       ops[i].term => /\ ops[i].status \in {"rejected", "thrown"}
                      /\ ops[i].err = NotReady
                      /\ ops[i].ctx = 0
  /\ terminated => _worker = 0 /\ _runner = 0 /\ ctx = 0 /\ inbox = <<>>

C5_Witness ==
  /\ terminated
  /\ \E i \in FacadeCalls : ops[i].term /\ ops[i].err = NotReady
  /\ \E j \in DOMAIN ops : ops[j].kind = "terminate" /\ ops[j].term

\* C6, as claimed: an initializeWorker call made while the client's worker
\* exists is forwarded to the Endpoint and never resolves: it is rejected
\* with "already initialized".
C6_SecondCallRejected ==
  \A i \in DOMAIN ops :
    ops[i].kind = "initializeWorker" /\ ops[i].live =>
      /\ ops[i].ctx # 0
      /\ StatusOf(i) # "resolved"
      /\ StatusOf(i) = "rejected" => ErrorOf(i) = AlreadyInitialized

\* C6, amended: such a call is stopped by the Client's own test of _worker:
\* nothing is posted for it, it resolves with a facade, and no call is ever
\* rejected with "already initialized".
C6_SecondCallShortCircuits ==
  /\ \A i \in DOMAIN ops :
       ops[i].kind = "initializeWorker" /\ ops[i].live =>
         ops[i].ctx = 0 /\ StatusOf(i) = "resolved"
  /\ \A i \in DOMAIN ops : ErrorOf(i) # AlreadyInitialized
  /\ \A k \in 1..Len(outbox) : outbox[k].err # AlreadyInitialized

C6_Witness ==
  \E i, j \in DOMAIN ops :
    /\ i < j
    /\ ops[i].kind = "initializeWorker" /\ StatusOf(i) = "pending"
    /\ ops[j].kind = "initializeWorker" /\ ops[j].live /\ StatusOf(j) = "resolved"

\* C7, as claimed: when an initializeWorker call resolves, the Endpoint's
\* initialization in the current worker has completed successfully.
C7_ResolvedMeansInitialized ==
  \A i \in DOMAIN ops :
    ops[i].kind = "initializeWorker" /\ StatusOf(i) = "resolved" => ops[i].engineReady

\* C8: in one background context, whatever requests arrive, loadPyodide is
\* started at most once, self.pyodide is never a second engine, and every
\* evaluation runs on the first.
C8_SingleEngine ==
  /\ loads <= 1
  /\ selfPyodide \in {0, 1}
  /\ \A e \in evalLog : e[2] = 1

\* A second initialize request was refused and an evaluation has run.
C8_Witness ==
  /\ \E i \in DOMAIN ops : ops[i].kind = "remote.initialize" /\ ops[i].err = AlreadyInitialized
  /\ evalLog # {}
  /\ loads = 1

\* The positions of the texts of run r that callback s was invoked with.
IsOf(r, t) == t[1] = r
Received(s, r) ==
  LET ts == SelectSeq(sinkLog[s], LAMBDA t : IsOf(r, t))
  IN [k \in 1..Len(ts) |-> ts[k][2]]

\* C9, as claimed: setOutput(sink) directly followed by a runPython whose
\* code is evaluated and writes n chunks: when the runPython promise has
\* settled, sink has been invoked exactly n times, once per chunk, in order.
C9_SinkBeforeSettle ==
  \A r \in DOMAIN ops :
    ( /\ r > 1 /\ r = Len(ops)
      /\ ops[r].kind = "runPython"
      /\ ops[r - 1].kind = "setOutput" /\ ops[r - 1].status = "returned" /\ ops[r - 1].cb # 0
      /\ \E e \in evalLog : e[1] = r
      /\ ops[r].status \in {"resolved", "rejected"} )
    => Received(ops[r - 1].cb, r) = [k \in 1..Len(ops[r].code.writes) |-> k]

\* C10, as claimed: once the client's setOutput(new) has been called, no
\* callback other than new is invoked through a setOutput proxy.
C10_NoOldSinkAfterCall ==
  [][\A p \in ProxyIds :
       p[2] = "output" /\ chan[p] # <<>> /\ chan'[p] = Tail(chan[p]) /\ sinkLog' # sinkLog
         => fgOutput # NoProxy /\ ProxySink(p) = ProxySink(fgOutput)]_vars

\* C10, amended: the Output Sink is one slot, replaced when the Endpoint
\* handles the setOutput request: a text written after the Endpoint handled
\* setOutput(new) is posted to no earlier setOutput proxy, and a text
\* written while the latest request handled is setOutput(null), or none, is
\* posted to no setOutput proxy.  Texts written before may still be in
\* transit when the client calls setOutput.
C10_SlotReplacedAtEndpoint ==
  /\ \A p \in ProxyIds :
       p[2] = "output" => \A k \in 1..Len(chan[p]) : chan[p][k][3] = p
  /\ \A s \in OutputCallbacks :
       \A k \in 1..Len(sinkLog[s]) :
         sinkLog[s][k][3] # NoProxy /\ ProxySink(sinkLog[s][k][3]) = s

\* One run's chunks: the first reached callback 3, then setOutput(4) was
\* handled, and the second reached callback 4.
C10_Witness ==
  /\ Len(sinkLog[3]) > 0 /\ Len(sinkLog[4]) > 0
  /\ sinkLog[3][1][1] = sinkLog[4][1][1]
  /\ sinkLog[3][1][2] = 1 /\ sinkLog[4][1][2] = 2

\* C11, as claimed: a runPythonJson call whose runPython resolved returns
\* null exactly when the result is undefined or "", returns the JSON parse
\* of every other result that is JSON text, and is rejected with the parse
\* error otherwise; an error of runPython is passed on unchanged.
C11_NullOnlyForNoneOrEmpty ==
  \A i \in DOMAIN ops :
    ops[i].kind = "runPythonJson" /\ ops[i].status \in {"resolved", "rejected"} =>
      LET v == ops[i].code.result
          json == JSONParse(JSToString(v))
      IN IF ops[i].ctx = 0 THEN ops[i].status = "rejected" /\ ops[i].err = NotReady
         ELSE IF ops[i].code.end # "value" \/ ops[i].err = InitFailure
         THEN ops[i].status = "rejected" /\ ops[i].err \in {"Error", InitFailure}
         ELSE /\ (ops[i].status = "resolved" /\ ops[i].val = "null") <=> v \in {"none", "empty"}
              /\ v \notin {"none", "empty"} /\ json.ok =>
                   ops[i].status = "resolved" /\ ops[i].val = json.val
              /\ v \notin {"none", "empty"} /\ ~json.ok =>
                   ops[i].status = "rejected" /\ ops[i].err = "SyntaxError"

\* The runs whose evaluation threw a PythonError and whose caller has been
\* answered.
EngineErrors ==
  {i \in DOMAIN ops : /\ ops[i].kind \in {"runPython", "remote.runPython"}
                       /\ ops[i].code.end = "PythonError"
                       /\ ops[i].status = "rejected"
                       /\ \E e \in evalLog : e[1] = i}

IsMarkerLine(line) == \E k \in DOMAIN line : line[k] = Marker

\* The lines of a message, read off the positions of its newlines.
Breaks(message) == {0, Len(message) + 1} \cup {k \in DOMAIN message : message[k] = NL}
LinesOf(message) ==
  {<<a, SubSeq(message, a + 1, b - 1)>> :
     <<a, b>> \in {ab \in Breaks(message) \X Breaks(message) :
                     ab[1] < ab[2] /\ \A c \in Breaks(message) : ~(ab[1] < c /\ c < ab[2])}}
Kept(message) == {l \in LinesOf(message) : ~IsMarkerLine(l[2])}

\* C12: the message of the error a runPython caller gets for a PythonError
\* has exactly the lines of the engine's message that do not contain the
\* marker, in their order, and no line that contains it.
C12_MarkerLinesRemoved ==
  \A i \in EngineErrors :
    LET before == Kept(ops[i].code.message)
        after == LinesOf(ops[i].message)
    IN /\ ops[i].err = "Error"
       /\ \A l \in after : ~IsMarkerLine(l[2])
       /\ Cardinality(after) = Cardinality(before)
       /\ \A l \in before :
            \E m \in after : /\ m[2] = l[2]
                             /\ Cardinality({x \in after : x[1] < m[1]})
                                  = Cardinality({x \in before : x[1] < l[1]})

\* A message with two marker lines among four has lost both and kept the
\* other two.
C12_Witness ==
  \E i \in EngineErrors :
    /\ ops[i].code.message = Traceback2
    /\ ops[i].message = <<"Traceback (most recent call last):", NL,
                           "NameError: name 'x' is not defined">>

\* The proxy of the stdout / stderr callback given to the initialize request
\* the Endpoint accepted.
InitSink(stream) == Proxy(load.id, stream, IF stream = "stdout" THEN ops[load.id].cfg.stdout
                                           ELSE ops[load.id].cfg.stderr)

\* C13: each time the engine writes a chunk to stdout (stderr), the stdout
\* (stderr) callback given to initialize, if any, and the Output Sink
\* registered at that moment, if any, are each invoked once with that chunk,
\* and nothing else is invoked.
C13_EachSinkOncePerChunk ==
  [][\A e \in evals :
       ( /\ e.pc < Len(ops[e.id].code.writes)
         /\ evals' = (evals \ {e}) \cup {[e EXCEPT !.pc = e.pc + 1]} )
       => LET stream == ops[e.id].code.writes[e.pc + 1]
              text == <<e.id, e.pc + 1, epOutput, <<>>>>
          IN \A p \in ProxyIds :
               chan'[p] = IF p = InitSink(stream) \/ p = epOutput
                          THEN Append(chan[p], text) ELSE chan[p]]_vars

\* Of one run, the first chunk reached the stdout callback of initialize and
\* the Output Sink, and the second, written after setOutput(null) was
\* handled, still reached the stdout callback.
C13_Witness ==
  \E j, k \in DOMAIN sinkLog[1] :
    /\ sinkLog[1][j][1] = sinkLog[1][k][1]
    /\ sinkLog[1][j][2] = 1 /\ sinkLog[1][k][2] = 2
    /\ sinkLog[1][j][3] # NoProxy /\ sinkLog[1][k][3] = NoProxy
    /\ \E n \in DOMAIN sinkLog[3] : sinkLog[3][n] = sinkLog[1][j]

\* C14: when an evaluation ends with a PythonError, the Output Sink
\* registered at that moment, if any, is invoked once with the cleaned
\* message and nothing else is invoked, and the call is answered with an
\* error carrying the cleaned message; the invocation is posted no later
\* than the answer.
C14_ErrorForwardedThenRaised ==
  [][\A e \in evals :
       ( /\ e.pc = Len(ops[e.id].code.writes)
         /\ ops[e.id].code.end = "PythonError"
         /\ evals' = evals \ {e} )
       => LET cleaned == Join(cleanedLines(Split(ops[e.id].code.message)))
          IN /\ outbox' = Append(outbox, ReplyError(e.id, "Error", cleaned))
             /\ \A p \in ProxyIds :
                  chan'[p] = IF p = epOutput
                             THEN Append(chan[p], <<e.id, 0, epOutput, cleaned>>)
                             ELSE chan[p]]_vars

\* A run rejected with a cleaned message that callback 3 was invoked with,
\* once.
C14_Witness ==
  \E i \in EngineErrors :
    /\ ops[i].message # ops[i].code.message
    /\ Cardinality({n \in DOMAIN sinkLog[3] : sinkLog[3][n][1] = i}) = 1
    /\ \E n \in DOMAIN sinkLog[3] :
         sinkLog[3][n][1] = i /\ sinkLog[3][n][2] = 0 /\ sinkLog[3][n][4] = ops[i].message

\* The texts posted to or received by any callback.
AllTexts ==
  UNION {Range(chan[p]) : p \in ProxyIds} \cup UNION {Range(sinkLog[c]) : c \in SinkIds}

\* C15, as claimed: when an evaluation throws something that is not a
\* PythonError, the caller gets that very error, with its name and its
\* message, and no callback is invoked with the message.
C15_OtherErrorsUnmodified ==
  \A i \in DOMAIN ops :
    ( /\ ops[i].kind \in {"runPython", "remote.runPython"}
      /\ ops[i].status = "rejected"
      /\ \E e \in evalLog : e[1] = i
      /\ ops[i].code.end \notin {"value", "PythonError"} )
    => /\ ops[i].err = ops[i].code.end
       /\ ops[i].message = ops[i].code.message
       /\ \A t \in AllTexts : ~(t[1] = i /\ t[2] = 0)

\* The requests the live worker has not handled yet, and the runs it holds.
Queued == {inbox[k].id : k \in DOMAIN inbox}
Held == {waiting[k].id : k \in DOMAIN waiting}
Evaluated == {e[1] : e \in evalLog}

\* C16: the Endpoint evaluates only once its initialization, installation
\* included, has completed successfully.  A runPython call made through the
\* Client before the initialization of its worker had resolved is, once the
\* worker has taken the request, held while the initialization is pending,
\* evaluated when it has completed, and answered with the initialization's
\* failure, unevaluated, when it has failed.
C16_EvaluatesOnlyWhenReady ==
  /\ evals # {} \/ evalLog # {} =>
       _pyodideReady = "resolved" /\ load.phase = "done" /\ selfPyodide # 0
  /\ \A i \in DOMAIN ops :
       ( /\ ops[i].kind = "runPython" /\ ~ops[i].ready
         /\ ctx # 0 /\ ops[i].ctx = ctx
         /\ i \notin Queued )
       => CASE _pyodideReady = "pending" -> i \in Held /\ ops[i].status = "pending"
            [] _pyodideReady = "resolved" -> i \in Evaluated
            [] _pyodideReady = "rejected" ->
                 /\ i \notin Evaluated
                 /\ \/ ops[i].status = "rejected" /\ ops[i].err = InitFailure
                    \/ \E k \in DOMAIN outbox :
                         outbox[k].id = i /\ ~outbox[k].ok /\ outbox[k].err = InitFailure
            [] OTHER -> FALSE

\* A run requested while the initialization was pending has been evaluated
\* and has resolved, after an installation of packages.
C16_Witness ==
  \E i \in DOMAIN ops :
    /\ ops[i].kind = "runPython" /\ ~ops[i].ready /\ ops[i].ctx = ctx
    /\ ops[i].status = "resolved"
    /\ i \in Evaluated
    /\ Len(load.packages) > 0

\* C17: the promise the Coordinator recorded at its first call is the one
\* every later call returns, also after terminate(): pyodide is never
\* cleared or replaced and no second initializeWorker execution or worker
\* exists; a call made after terminate() resolves to the same facade as the
\* first, and that facade's operations fail with the not-ready error.
C17_CoordinatorOnlyForward ==
  /\ CoordinatorCalls # {} =>
       /\ pyodide \in CoordinatorCalls
       /\ \A i \in CoordinatorCalls : pyodide <= i /\ ops[i].promise = pyodide
  /\ Cardinality(Invocations) <= 1
  /\ nctx <= 1
  /\ \A i \in CoordinatorCalls :
       ops[i].term => StatusOf(i) = "resolved" /\ ValueOf(i) = ValueOf(pyodide)
  /\ \A i \in FacadeCalls :
       ops[i].term => ops[i].status \in {"rejected", "thrown"} /\ ops[i].err = NotReady

\* After terminate(), getPyodide has resolved to the first facade and a
\* runPython on it was rejected as not ready.
C17_Witness ==
  \E i, j \in DOMAIN ops :
    /\ ops[i].kind = "getPyodide" /\ ops[i].term /\ i # pyodide
    /\ StatusOf(i) = "resolved" /\ ValueOf(i) = ValueOf(pyodide)
    /\ j > i /\ ops[j].kind = "runPython" /\ ops[j].err = NotReady

\* C18: when the Endpoint takes an initialize request after an
\* initialization was started in its context, the request is answered at
\* once with "pyodide was already initialized" and nothing else changes:
\* not the ready promise, the engine, the callbacks given to the first
\* initialize, the Output Sink, the load count, nor the runs held or under
\* evaluation, and no callback is invoked.
C18_RefusedInitializeChangesNothing ==
  [][( /\ HeadIs("initialize")
       /\ _pyodideReady # "null"
       /\ inbox' = Tail(inbox) )
     => /\ Len(outbox') = Len(outbox) + 1
        /\ SubSeq(outbox', 1, Len(outbox)) = outbox
        /\ outbox'[Len(outbox')].id = Head(inbox).id
        /\ ~outbox'[Len(outbox')].ok
        /\ outbox'[Len(outbox')].err = AlreadyInitialized
        /\ UNCHANGED <<_pyodideReady, selfPyodide, load, loads, _output, epOutput,
                       waiting, evals, evalLog, chan>>]_vars

\* An initialize carrying ConfigB was refused after one carrying ConfigA; a
\* run requested after it resolved on the first engine, and its output
\* reached ConfigA's callback and not ConfigB's.
C18_Witness ==
  \E i, j \in DOMAIN ops :
    /\ ops[i].kind = "remote.initialize" /\ ops[i].cfg = ConfigB
    /\ ops[i].status = "rejected" /\ ops[i].err = AlreadyInitialized
    /\ j > i /\ ops[j].kind = "remote.runPython" /\ ops[j].status = "resolved"
    /\ <<j, 1>> \in evalLog
    /\ sinkLog[1] # <<>> /\ sinkLog[2] = <<>>

Settles(i) == i \in DOMAIN ops /\ StatusOf(i) \in {"resolved", "rejected"}

\* C19, as claimed: every initializeWorker, initializePyodide and runPython
\* call eventually resolves or rejects, also one that is pending when
\* terminate() is called.
C19_EveryCallSettles ==
  \A i \in OpIds :
    [](( /\ i \in DOMAIN ops
         /\ ops[i].kind \in {"initializeWorker", "initializePyodide", "runPython"} )
       => <>Settles(i))

\* The worker contexts created and not terminated.
Terminated == {ops[j].ctx : j \in {k \in DOMAIN ops : ops[k].kind = "terminate"}}
LiveWorkers == (1..nctx) \ Terminated

\* C20: between operations, _worker and _runner are both null or both set
\* (to the same worker), so the guards of runPython and of setOutput agree;
\* and at most one worker that was not terminated exists, the one _worker
\* holds.
C20_WorkerAndRunnerAgree ==
  /\ (_worker = 0) <=> (_runner = 0)
  /\ _worker = _runner
  /\ (_worker = 0 \/ _runner = 0) <=> (_runner = 0)
  /\ Cardinality(LiveWorkers) <= 1
  /\ ctx = _worker
  /\ LiveWorkers = IF ctx = 0 THEN {} ELSE {ctx}

\* A second worker, created after the first was terminated, is held by
\* both fields.
C20_Witness ==
  /\ nctx = 2
  /\ _worker = 2 /\ _runner = 2
  /\ Terminated = {1}

====
